---- MODULE Spec2Model ----
(***************************************************************************)
(* Model of src/main.py: one run of distribute_issues() over the batch of *)
(* pending Jira issues.  The run is a sequential procedure; its position  *)
(* (pc) advances at every external call (search, count, transition,       *)
(* assign), each of which may fail by raising an exception.               *)
(*                                                                         *)
(* Texts are TLA+ strings over ASCII.  The Cyrillic literals of the       *)
(* source are written in Latin transliteration, letter for letter in      *)
(* case.  str.lower() is modelled character by character (Lower).         *)
(***************************************************************************)
EXTENDS Integers, Sequences, FiniteSets, TLC

VARIABLES
    KEYWORDS,      \* config.KEYWORDS: ordered group -> include / exclude phrases
    GROUPS,        \* config.GROUPS: group -> ordered list of logins
    pending,       \* what the backend's search returns when it succeeds
    pc,            \* position of the run inside distribute_issues
    issues,        \* local `issues` (line 131)
    i,             \* index of the loop variable `issue` in `issues`
    best_group,    \* local `best_group` (lines 158-167)
    assignee,      \* login handed to assign_issue (assignee_name / assignee)
    k,             \* number of candidates already probed by min() (line 170)
    counts,        \* results of the probes of the current min() call
    classified,    \* keys of the issues for which lines 157-167 ran
    matches,       \* include_matches / exclude_matches of each group, as
                   \* computed by the last run of lines 160-162, and its issue
    calls,         \* calls issued so far (search, count, transition, assign,
                   \* time.sleep), in order
    log,           \* records written to the logger "AutoJira"
    success_log    \* records written to the logger "successLogger"

vars == <<KEYWORDS, GROUPS, pending, pc, issues, i, best_group, assignee,
          k, counts, classified, matches, calls, log, success_log>>

None == "<None>"

(* ------------------------------ bounds --------------------------------- *)
MaxTickets == 2      \* longest batch returned by the search
MaxCount == 1        \* largest "total" returned by a count query

(* ------------------------- inputs -------------------------------------- *)
Rule(group, include, exclude) ==
    [group |-> group, include |-> include, exclude |-> exclude]

NetworkRule == Rule("network", << "vpn", "wifi" >>, << "printer" >>)
PrintersRule == Rule("printers", << "printer", "toner", "cartridge" >>, << >>)
LaptopsRule == Rule("laptops", << "notebook" >>, << >>)

\* the configurations the run is checked with: [KEYWORDS, GROUPS]
Configs ==
    { [KEYWORDS |-> << NetworkRule, PrintersRule, LaptopsRule >>,
       GROUPS |-> [g \in {"network", "printers", "laptops"} |->
                     CASE g = "network" -> << "ann", "bob" >>
                       [] g = "printers" -> << "bob", "cat", "dan" >>
                       [] g = "laptops" -> << >>]],
      [KEYWORDS |-> << PrintersRule, LaptopsRule, NetworkRule >>,
       GROUPS |-> [g \in {"network", "printers"} |->
                     CASE g = "network" -> << "ann" >>
                       [] g = "printers" -> << "cat", "bob" >>]] }

Ticket(summary, description, login) ==
    [summary |-> summary, description |-> description, assignee |-> login]

\* tickets of which batches of any length up to MaxTickets are built
RunPool ==
    { Ticket("hello", "", None),
      Ticket("VYDACHA NOUTBUKA - vpn", None, None),
      Ticket("hello", None, "eve"),
      Ticket("vpn", "see NB-Z12", "eve"),
      Ticket("notebook", None, None),
      Ticket("vpn", "asset NB-Z12", None),
      Ticket("VPN", "nb-z12 or NB-24-7", None) }

\* tickets that are also run as a batch of their own
Pool ==
    RunPool \cup
    { Ticket("VPN down", None, None),
      Ticket("Toner", "VPN", None),
      Ticket("vpn WiFi", "Printer", None),
      Ticket("toner cartridge", "vpn", None),
      Ticket("Re: Vydacha noutbuka - vpn", "", None),
      Ticket("toner", "asset NB-Z047", None),
      Ticket("Vydacha noutbuka - x", "toner", "eve"),
      Ticket("izmenenie dolzhnosti/oklada", "printer", None),
      Ticket("vp", "n toner", None),
      Ticket("wi", "fi", None) }

\* issue["key"] of the n-th issue of the batch
KeyOf(n) == "SD-" \o ToString(n)

RECURSIVE SeqsOf(_, _)
SeqsOf(S, n) ==
    IF n = 0 THEN { << >> }
    ELSE { Append(q, t) : q \in SeqsOf(S, n - 1), t \in S }

WithKeys(q) ==
    [n \in 1..Len(q) |->
        [key |-> KeyOf(n), summary |-> q[n].summary,
         description |-> q[n].description, assignee |-> q[n].assignee]]

Batches ==
    { WithKeys(q) :
        q \in SeqsOf(Pool, 1) \cup UNION { SeqsOf(RunPool, n) : n \in 0..MaxTickets } }

(* ------------------------- program constants --------------------------- *)
IGNORED_PREFIXES ==
    << "Zayavka na vozvrat oborudovaniya - Uvol'nenie",
       "Vydacha noutbuka -",
       "(Ofis)Organizatsiya novogo rabochego mesta",
       "Izmenenie dolzhnosti/oklada" >>

\* line 119
transition_id == 21

NB_MARKER == "nb-z"
NB_ALLOWED == << "nb-z04", "nb-z4-", "nb-24-" >>

(* ------------------------- strings ------------------------------------- *)
UpperChars == "ABCDEFGHIJKLMNOPQRSTUVWXYZ"
LowerChars == "abcdefghijklmnopqrstuvwxyz"

CharAt(s, n) == SubSeq(s, n, n)

\* the lower-case letter of every upper-case letter
LowerOf ==
    [c \in { CharAt(UpperChars, n) : n \in 1..Len(UpperChars) } |->
        CharAt(LowerChars, CHOOSE n \in 1..Len(UpperChars) : CharAt(UpperChars, n) = c)]

\* str.lower() on one character
LowerChar(c) == IF c \in DOMAIN LowerOf THEN LowerOf[c] ELSE c

\* str.lower(), character by character
RECURSIVE LowerFrom(_, _)
LowerFrom(s, n) ==
    IF n > Len(s) THEN ""
    ELSE LowerChar(CharAt(s, n)) \o LowerFrom(s, n + 1)

\* the elements of a sequence
Range(q) == { q[n] : n \in 1..Len(q) }

\* the texts of the tickets and the ignored prefixes
Texts ==
    { t.summary : t \in Pool } \cup { t.description : t \in Pool }
        \cup Range(IGNORED_PREFIXES)

\* str.lower() of every text, computed once
LowerText == [s \in Texts |-> LowerFrom(s, 1)]

\* str.lower()
Lower(s) == IF s \in Texts THEN LowerText[s] ELSE LowerFrom(s, 1)

\* the phrases searched for in the texts
Phrases ==
    { NB_MARKER } \cup Range(NB_ALLOWED)
        \cup UNION { UNION { Range(kw.include) \cup Range(kw.exclude) :
                               kw \in Range(c.KEYWORDS) } :
                     c \in Configs }

\* `sub in s`, by comparing sub with every slice of s of its length
Slice(sub, s) ==
    \E n \in 0..(Len(s) - Len(sub)) : SubSeq(s, n + 1, n + Len(sub)) = sub

\* the lower-cased texts, and "" for a description that is None
LowerTexts == { LowerText[t] : t \in Texts } \cup { "" }

\* the lower-cased texts every phrase occurs in, computed once
Occurs == [sub \in Phrases |-> { s \in LowerTexts : Slice(sub, s) }]

\* `sub in s`
Contains(sub, s) ==
    IF sub \in Phrases /\ s \in LowerTexts
    THEN s \in Occurs[sub]
    ELSE Slice(sub, s)

\* s.startswith(prefix)
StartsWith(s, prefix) ==
    /\ Len(prefix) <= Len(s)
    /\ SubSeq(s, 1, Len(prefix)) = prefix

(* ------------------------- per-issue locals ---------------------------- *)
\* line 133
Summary(issue) == Lower(issue.summary)

\* line 134
Description(issue) ==
    IF issue.description = None THEN "" ELSE Lower(issue.description)

\* variant of NbIgnored: only the first two allow-patterns are accepted
NbIgnoredNarrow(issue) ==
    /\ Contains(NB_MARKER, Description(issue))
    /\ ~ \E n \in 1..2 : Contains(NB_ALLOWED[n], Description(issue))

\* lines 139-140: the NB-Z* check says "skip"
NbIgnored(issue) ==
    /\ Contains(NB_MARKER, Description(issue))
    /\ ~ \E n \in 1..Len(NB_ALLOWED) : Contains(NB_ALLOWED[n], Description(issue))

\* line 145
HasAssignee(issue) == issue.assignee # None

\* variant of PrefixIgnored: the prefix is not lower-cased
PrefixIgnoredRaw(issue) ==
    \E n \in 1..Len(IGNORED_PREFIXES) :
        StartsWith(Summary(issue), IGNORED_PREFIXES[n])

\* line 153
PrefixIgnored(issue) ==
    \E n \in 1..Len(IGNORED_PREFIXES) :
        StartsWith(Summary(issue), Lower(IGNORED_PREFIXES[n]))

\* variant of Branch: the prefix filter is applied before the assignee check
BranchPrefixFirst(issue) ==
    IF NbIgnored(issue) THEN "skip_nb"
    ELSE IF PrefixIgnored(issue) THEN "skip_prefix"
    ELSE IF HasAssignee(issue) THEN "reassign"
    ELSE "classify"

\* lines 139-155: which way the loop body goes for an issue
Branch(issue) ==
    IF NbIgnored(issue) THEN "skip_nb"
    ELSE IF HasAssignee(issue) THEN "reassign"
    ELSE IF PrefixIgnored(issue) THEN "skip_prefix"
    ELSE "classify"

(* ------------------------- classifier ---------------------------------- *)
\* variant of Matches: the description is not searched
MatchesSummaryOnly(phrases, issue) ==
    LET summary == Summary(issue)
    IN Cardinality({ n \in 1..Len(phrases) : Contains(phrases[n], summary) })

\* sum(kw in summary or kw in description for kw in phrases)
Matches(phrases, issue) ==
    LET summary == Summary(issue)
        description == Description(issue)
    IN Cardinality({ n \in 1..Len(phrases) :
                       \/ Contains(phrases[n], summary)
                       \/ Contains(phrases[n], description) })

\* line 161
IncludeMatches(kw, issue) == Matches(kw.include, issue)

\* line 162
ExcludeMatches(kw, issue) == Matches(kw.exclude, issue)

\* variant of Eligible: exclude phrases are not consulted
EligibleIgnoringExclude(kw, issue) == IncludeMatches(kw, issue) > 0

\* line 164
Eligible(kw, issue) ==
    IncludeMatches(kw, issue) > 0 /\ ExcludeMatches(kw, issue) = 0

\* variant of Better: a later group with an equal score replaces the best
BetterOrEqual(score, best_score) == score >= best_score

\* line 165
Better(score, best_score) == score > best_score

\* lines 158-167: the loop over KEYWORDS.items(), as a fold over the first n
\* entries; the result is the pair <<best_group, best_score>>
RECURSIVE Scan(_, _, _)
Scan(table, issue, n) ==
    IF n = 0 THEN << None, 0 >>
    ELSE LET prev == Scan(table, issue, n - 1)
             kw == table[n]
         IN IF /\ Eligible(kw, issue)
               /\ Better(IncludeMatches(kw, issue), prev[2])
            THEN << kw.group, IncludeMatches(kw, issue) >>
            ELSE prev

BestGroup(table, issue) == Scan(table, issue, Len(table))[1]

(* ------------------------- candidate selection ------------------------- *)
\* variant of ArgMin: the last element whose key is smallest is kept
RECURSIVE ArgMinLast(_, _)
ArgMinLast(cs, n) ==
    IF n = 1 THEN 1
    ELSE LET m == ArgMinLast(cs, n - 1)
         IN IF cs[n] <= cs[m] THEN n ELSE m

\* min(seq, key=...) keeps the first element whose key is smallest
RECURSIVE ArgMin(_, _)
ArgMin(cs, n) ==
    IF n = 1 THEN 1
    ELSE LET m == ArgMin(cs, n - 1)
         IN IF cs[n] < cs[m] THEN n ELSE m

\* line 170: GROUPS[best_group] raises KeyError, min() of [] raises ValueError
HasCandidates(group) ==
    /\ group \in DOMAIN GROUPS
    /\ Len(GROUPS[group]) > 0

(* ------------------------- records ------------------------------------- *)
Call(op, key, arg, ok) == [op |-> op, key |-> key, arg |-> arg, ok |-> ok]

Entry(level, event, key, arg) ==
    [level |-> level, event |-> event, key |-> key, arg |-> arg]

\* line 178: the handler of distribute_issues
RunError == Entry("ERROR", "run_error", None, None)

(* ------------------------- initial state ------------------------------- *)
Init ==
    /\ \E c \in Configs : KEYWORDS = c.KEYWORDS /\ GROUPS = c.GROUPS
    /\ pending \in Batches
    /\ pc = "start"
    /\ issues = << >>
    /\ i = 0
    /\ best_group = None
    /\ assignee = None
    /\ k = 0
    /\ counts = << >>
    /\ classified = {}
    /\ matches = [key |-> None, include |-> << >>, exclude |-> << >>]
    /\ calls = << >>
    /\ log = << >>
    /\ success_log = << >>

(* ------------------------- get_pending_issues -------------------------- *)
\* lines 131, 85-90: the search returns the pending issues
Fetch ==
    /\ pc = "start"
    /\ calls' = Append(calls, Call("search", None, None, TRUE))
    /\ issues' = pending
    /\ log' = Append(log, Entry("INFO", "found", None, ToString(Len(pending))))
    /\ i' = 1
    /\ pc' = "loop"
    /\ UNCHANGED <<KEYWORDS, GROUPS, pending, best_group, assignee, k, counts,
                   classified, matches, success_log>>

\* variant of FetchFails: the failure is swallowed and the loop is entered
FetchFailsLoopEntered ==
    /\ pc = "start"
    /\ calls' = Append(calls, Call("search", None, None, FALSE))
    /\ log' = Append(log, RunError)
    /\ issues' = pending
    /\ i' = 1
    /\ pc' = "loop"
    /\ UNCHANGED <<KEYWORDS, GROUPS, pending, best_group, assignee,
                   k, counts, classified, matches, success_log>>

\* lines 86-88 raise; the exception reaches line 177
FetchFails ==
    /\ pc = "start"
    /\ calls' = Append(calls, Call("search", None, None, FALSE))
    /\ log' = Append(log, RunError)
    /\ pc' = "done"
    /\ UNCHANGED <<KEYWORDS, GROUPS, pending, issues, i, best_group, assignee,
                   k, counts, classified, matches, success_log>>

(* ------------------------- loop body, lines 132-155 -------------------- *)
AtIssue == pc = "loop" /\ i <= Len(issues)

\* lines 139-142
SkipNb ==
    /\ AtIssue
    /\ Branch(issues[i]) = "skip_nb"
    /\ log' = Append(log, Entry("INFO", "skip_nb", issues[i].key, None))
    /\ i' = i + 1
    /\ UNCHANGED <<KEYWORDS, GROUPS, pending, pc, issues, best_group, assignee,
                   k, counts, classified, matches, calls, success_log>>

\* variant of Reassign: the transition call is left out
ReassignWithoutTransition ==
    /\ AtIssue
    /\ Branch(issues[i]) = "reassign"
    /\ assignee' = issues[i].assignee
    /\ pc' = "assign"
    /\ UNCHANGED <<KEYWORDS, GROUPS, pending, issues, i, best_group, k, counts,
                   classified, matches, calls, log, success_log>>

\* lines 145-147, up to the call of transition_issue_to_in_progress
Reassign ==
    /\ AtIssue
    /\ Branch(issues[i]) = "reassign"
    /\ assignee' = issues[i].assignee
    /\ pc' = "transition"
    /\ UNCHANGED <<KEYWORDS, GROUPS, pending, issues, i, best_group, k, counts,
                   classified, matches, calls, log, success_log>>

\* lines 153-155
SkipPrefix ==
    /\ AtIssue
    /\ Branch(issues[i]) = "skip_prefix"
    /\ log' = Append(log, Entry("INFO", "skip_prefix", issues[i].key, None))
    /\ i' = i + 1
    /\ UNCHANGED <<KEYWORDS, GROUPS, pending, pc, issues, best_group, assignee,
                   k, counts, classified, matches, calls, success_log>>

(* ------------------------- lines 157-175 ------------------------------- *)
\* line 169: `if best_group:`
Truthy(group) == group # None /\ group # ""

\* lines 158-167
Classify ==
    /\ AtIssue
    /\ Branch(issues[i]) = "classify"
    /\ best_group' = BestGroup(KEYWORDS, issues[i])
    /\ matches' = [key |-> issues[i].key,
                   include |-> [n \in 1..Len(KEYWORDS) |->
                                   IncludeMatches(KEYWORDS[n], issues[i])],
                   exclude |-> [n \in 1..Len(KEYWORDS) |->
                                   ExcludeMatches(KEYWORDS[n], issues[i])]]
    /\ classified' = classified \cup { issues[i].key }

\* variant of Unroutable: an unroutable ticket ends the run
UnroutableEndsRun ==
    /\ Classify
    /\ ~ Truthy(best_group')
    /\ log' = Append(log, RunError)
    /\ pc' = "done"
    /\ UNCHANGED <<KEYWORDS, GROUPS, pending, issues, i, assignee, k, counts,
                   calls, success_log>>

\* lines 174-175
Unroutable ==
    /\ Classify
    /\ ~ Truthy(best_group')
    /\ log' = Append(log, Entry("WARNING", "no_group", issues[i].key, None))
    /\ i' = i + 1
    /\ UNCHANGED <<KEYWORDS, GROUPS, pending, pc, issues, assignee, k, counts,
                   calls, success_log>>

\* variant of StartProbing: the first candidate is not probed and counts as idle
StartProbingSkipsFirst ==
    /\ Classify
    /\ Truthy(best_group')
    /\ HasCandidates(best_group')
    /\ Len(GROUPS[best_group']) > 1
    /\ k' = 1
    /\ counts' = << 0 >>
    /\ pc' = "probe"
    /\ UNCHANGED <<KEYWORDS, GROUPS, pending, issues, i, assignee, calls, log,
                   success_log>>

\* line 170, up to the first call of get_issue_count_for_user
StartProbing ==
    /\ Classify
    /\ Truthy(best_group')
    /\ HasCandidates(best_group')
    /\ k' = 0
    /\ counts' = << >>
    /\ pc' = "probe"
    /\ UNCHANGED <<KEYWORDS, GROUPS, pending, issues, i, assignee, calls, log,
                   success_log>>

\* variant of NoCandidates: a fixed login is assigned when there is no candidate
NoCandidatesDefaultLogin ==
    /\ Classify
    /\ Truthy(best_group')
    /\ ~ HasCandidates(best_group')
    /\ assignee' = "admin"
    /\ pc' = "transition"
    /\ UNCHANGED <<KEYWORDS, GROUPS, pending, issues, i, k, counts,
                   calls, log, success_log>>

\* line 170 raises KeyError or ValueError; the exception reaches line 177
NoCandidates ==
    /\ Classify
    /\ Truthy(best_group')
    /\ ~ HasCandidates(best_group')
    /\ log' = Append(log, RunError)
    /\ pc' = "done"
    /\ UNCHANGED <<KEYWORDS, GROUPS, pending, issues, i, assignee, k, counts,
                   calls, success_log>>

\* line 132: the batch is exhausted
Finish ==
    /\ pc = "loop"
    /\ i > Len(issues)
    /\ pc' = "done"
    /\ UNCHANGED <<KEYWORDS, GROUPS, pending, issues, i, best_group, assignee,
                   k, counts, classified, matches, calls, log, success_log>>

(* ------------------------- get_issue_count_for_user -------------------- *)
\* the candidates min() iterates over
Candidates == GROUPS[best_group]

\* lines 97-103, called by min() for the next candidate; after the last
\* candidate min() returns and line 171 is reached
ProbeReturns ==
    /\ pc = "probe"
    /\ \E c \in 0..MaxCount :
        /\ calls' = Append(calls, Call("count", issues[i].key, Candidates[k + 1], TRUE))
        /\ log' = Append(log, Entry("DEBUG", "count", Candidates[k + 1], ToString(c)))
        /\ counts' = Append(counts, c)
    /\ k' = k + 1
    /\ IF k' = Len(Candidates)
       THEN /\ assignee' = Candidates[ArgMin(counts', Len(Candidates))]
            /\ pc' = "transition"
       ELSE UNCHANGED <<assignee, pc>>
    /\ UNCHANGED <<KEYWORDS, GROUPS, pending, issues, i, best_group, classified, matches,
                   success_log>>

\* variant of ProbeFails: the handler of line 177 does not catch the
\* exception, which leaves distribute_issues
ProbeFailsEscapes ==
    /\ pc = "probe"
    /\ calls' = Append(calls, Call("count", issues[i].key, Candidates[k + 1], FALSE))
    /\ pc' = "raised"
    /\ UNCHANGED <<KEYWORDS, GROUPS, pending, issues, i, best_group, assignee,
                   k, counts, classified, matches, log, success_log>>

\* variant of ProbeFails: the failure is swallowed and the candidate is taken
ProbeFailsIgnored ==
    /\ pc = "probe"
    /\ calls' = Append(calls, Call("count", issues[i].key, Candidates[k + 1], FALSE))
    /\ log' = Append(log, RunError)
    /\ assignee' = Candidates[k + 1]
    /\ pc' = "transition"
    /\ UNCHANGED <<KEYWORDS, GROUPS, pending, issues, i, best_group,
                   k, counts, classified, matches, success_log>>

\* lines 99-101 raise; the exception leaves min() and reaches line 177
ProbeFails ==
    /\ pc = "probe"
    /\ calls' = Append(calls, Call("count", issues[i].key, Candidates[k + 1], FALSE))
    /\ log' = Append(log, RunError)
    /\ pc' = "done"
    /\ UNCHANGED <<KEYWORDS, GROUPS, pending, issues, i, best_group, assignee,
                   k, counts, classified, matches, success_log>>

(* ------------------------- transition_issue_to_in_progress ------------- *)
\* lines 119-121
TransitionDone ==
    /\ pc = "transition"
    /\ calls' = Append(calls, Call("transition", issues[i].key, ToString(transition_id), TRUE))
    /\ log' = Append(log, Entry("INFO", "transitioned", issues[i].key, None))
    /\ pc' = "assign"
    /\ UNCHANGED <<KEYWORDS, GROUPS, pending, issues, i, best_group, assignee,
                   k, counts, classified, matches, success_log>>

\* variant of TransitionFails: the exception is not caught in the function
TransitionFailsUncaught ==
    /\ pc = "transition"
    /\ calls' = Append(calls, Call("transition", issues[i].key, ToString(transition_id), FALSE))
    /\ log' = Append(log, RunError)
    /\ pc' = "done"
    /\ UNCHANGED <<KEYWORDS, GROUPS, pending, issues, i, best_group, assignee,
                   k, counts, classified, matches, success_log>>

\* line 120 raises, lines 122-123 catch
TransitionFails ==
    /\ pc = "transition"
    /\ calls' = Append(calls, Call("transition", issues[i].key, ToString(transition_id), FALSE))
    /\ log' = Append(log, Entry("ERROR", "transition_error", issues[i].key, None))
    /\ pc' = "assign"
    /\ UNCHANGED <<KEYWORDS, GROUPS, pending, issues, i, best_group, assignee,
                   k, counts, classified, matches, success_log>>

(* ------------------------- assign_issue -------------------------------- *)
\* lines 149 and 173: what the success logger is told
SuccessEvent(issue) == IF HasAssignee(issue) THEN "reassigned" ELSE "routed"

\* variant of AssignDone: line 149 is missing, a reassignment is not recorded
AssignDoneReassignUnrecorded ==
    /\ pc = "assign"
    /\ calls' = Append(calls, Call("assign", issues[i].key, assignee, TRUE))
    /\ log' = Append(log, Entry("INFO", "assigned", issues[i].key, assignee))
    /\ success_log' =
          IF HasAssignee(issues[i]) THEN success_log
          ELSE Append(success_log, Entry("INFO", "routed", issues[i].key, assignee))
    /\ i' = i + 1
    /\ pc' = "loop"
    /\ UNCHANGED <<KEYWORDS, GROUPS, pending, issues, best_group, assignee, k,
                   counts, classified, matches>>

\* lines 110-111, then line 149 or 173, then the next issue
AssignDone ==
    /\ pc = "assign"
    /\ calls' = Append(calls, Call("assign", issues[i].key, assignee, TRUE))
    /\ log' = Append(log, Entry("INFO", "assigned", issues[i].key, assignee))
    /\ success_log' = Append(success_log,
                             Entry("INFO", SuccessEvent(issues[i]), issues[i].key, assignee))
    /\ i' = i + 1
    /\ pc' = "loop"
    /\ UNCHANGED <<KEYWORDS, GROUPS, pending, issues, best_group, assignee, k,
                   counts, classified, matches>>

\* variant of AssignFails: the call is issued again after a failure
AssignFailsRetried ==
    /\ pc = "assign"
    /\ calls' = Append(calls, Call("assign", issues[i].key, assignee, FALSE))
    /\ log' = Append(log, RunError)
    /\ UNCHANGED <<KEYWORDS, GROUPS, pending, pc, issues, i, best_group, assignee,
                   k, counts, classified, matches, success_log>>

\* variant of AssignFails: the exception is caught inside the loop body
AssignFailsCaughtInLoop ==
    /\ pc = "assign"
    /\ calls' = Append(calls, Call("assign", issues[i].key, assignee, FALSE))
    /\ log' = Append(log, RunError)
    /\ i' = i + 1
    /\ pc' = "loop"
    /\ UNCHANGED <<KEYWORDS, GROUPS, pending, issues, best_group, assignee,
                   k, counts, classified, matches, success_log>>

\* line 110 raises; the exception reaches line 177
AssignFails ==
    /\ pc = "assign"
    /\ calls' = Append(calls, Call("assign", issues[i].key, assignee, FALSE))
    /\ log' = Append(log, RunError)
    /\ pc' = "done"
    /\ UNCHANGED <<KEYWORDS, GROUPS, pending, issues, i, best_group, assignee,
                   k, counts, classified, matches, success_log>>

(* ------------------------- specification ------------------------------- *)
Next ==
    \/ Fetch
    \/ FetchFails
    \/ SkipNb
    \/ Reassign
    \/ SkipPrefix
    \/ Unroutable
    \/ StartProbing
    \/ NoCandidates
    \/ Finish
    \/ ProbeReturns
    \/ ProbeFails
    \/ TransitionDone
    \/ TransitionFails
    \/ AssignDone
    \/ AssignFails

Spec == Init /\ [][Next]_vars

\* the interpreter runs the procedure to its end: a step that can be taken
\* is eventually taken
FairSpec == Spec /\ WF_vars(Next)

TypeOK ==
    /\ pc \in {"start", "loop", "probe", "transition", "assign", "done"}
    /\ i \in 0..(Len(issues) + 1)
    /\ pc \in {"probe", "transition", "assign"} => i \in 1..Len(issues)
    /\ pc = "probe" => Len(counts) = k /\ k < Len(Candidates)

(* ------------------------- vocabulary of the properties ---------------- *)
Last(q) == q[Len(q)]

Tickets == 1..Len(issues)

\* the loop has left issue j behind without an exception
Completed(j) == i > j

\* positions in `calls` of the calls of kind op issued for the issue with this key
CallsOf(op, key) ==
    { n \in 1..Len(calls) : calls[n].op = op /\ calls[n].key = key }

\* no count, transition or assign call was issued for the issue with this key
Untouched(key) == \A n \in 1..Len(calls) : calls[n].key # key

Logged(level, event, key) ==
    \E n \in 1..Len(log) :
        log[n].level = level /\ log[n].event = event /\ log[n].key = key

Skipped(key) == Logged("INFO", "skip_nb", key) \/ Logged("INFO", "skip_prefix", key)

\* the description holds the marker but none of the allow-patterns
MarkerOnly(issue) ==
    /\ Contains("nb-z", Description(issue))
    /\ ~ Contains("nb-z04", Description(issue))
    /\ ~ Contains("nb-z4-", Description(issue))
    /\ ~ Contains("nb-24-", Description(issue))

\* the description holds the marker and one of the allow-patterns
MarkerAllowed(issue) ==
    /\ Contains("nb-z", Description(issue))
    /\ \/ Contains("nb-z04", Description(issue))
       \/ Contains("nb-z4-", Description(issue))
       \/ Contains("nb-24-", Description(issue))

\* the subject starts with an ignored prefix, letter case disregarded
StartsWithIgnoredPrefix(issue) ==
    \E n \in 1..Len(IGNORED_PREFIXES) :
        LET p == IGNORED_PREFIXES[n]
        IN /\ Len(p) <= Len(issue.summary)
           /\ Lower(SubSeq(issue.summary, 1, Len(p))) = Lower(p)

\* entries of the Rule Table eligible for an issue
EligibleTeams(issue) ==
    { n \in 1..Len(KEYWORDS) :
        /\ IncludeMatches(KEYWORDS[n], issue) > 0
        /\ ExcludeMatches(KEYWORDS[n], issue) = 0 }

\* the eligible entries with the greatest include count
TopTeams(issue) ==
    LET eligible == EligibleTeams(issue)
        count == [n \in eligible |-> IncludeMatches(KEYWORDS[n], issue)]
    IN { n \in eligible : \A m \in eligible : count[m] <= count[n] }

\* the step runs the Classifier on the current issue
ClassifierRuns == classified' # classified

(* ------------------------- C1 ------------------------------------------ *)
\* C1 as stated: every issue that carries an assignee and that the loop has
\* left behind was never classified and got a transition call and an assign
\* call to that same assignee, whatever its texts contain.
C1_AssignedAlwaysReassigned ==
    \A j \in Tickets :
        HasAssignee(issues[j]) /\ Completed(j) =>
            /\ issues[j].key \notin classified
            /\ CallsOf("transition", issues[j].key) # {}
            /\ \E n \in CallsOf("assign", issues[j].key) :
                   calls[n].arg = issues[j].assignee

\* C1 amended: an issue that carries an assignee is never classified; if its
\* description does not hold the marker without an allow-pattern, then once
\* the loop has left it behind it got a transition call and an assign call to
\* that same assignee and no other; if it does, no call is issued for it.
C1_AssignedReassignedUnlessMarker ==
    \A j \in Tickets :
        HasAssignee(issues[j]) =>
            /\ issues[j].key \notin classified
            /\ \A n \in CallsOf("assign", issues[j].key) :
                   calls[n].arg = issues[j].assignee
            /\ CallsOf("count", issues[j].key) = {}
            /\ ~ MarkerOnly(issues[j]) /\ Completed(j) =>
                   /\ CallsOf("transition", issues[j].key) # {}
                   /\ CallsOf("assign", issues[j].key) # {}
                   /\ ~ Skipped(issues[j].key)
            /\ MarkerOnly(issues[j]) => Untouched(issues[j].key)

\* an issue with an assignee and an ignored subject prefix was reassigned
C1_Witness ==
    \E j \in Tickets :
        /\ HasAssignee(issues[j])
        /\ StartsWithIgnoredPrefix(issues[j])
        /\ Completed(j)
        /\ CallsOf("assign", issues[j].key) # {}

(* ------------------------- C2 ------------------------------------------ *)
AssignFailed(key) == \E n \in CallsOf("assign", key) : ~ calls[n].ok

\* C2 as stated: when the run has ended and the assign call of an issue
\* failed, every later issue of the batch was processed.
C2_LaterTicketsProcessed ==
    \A j \in Tickets : \A later \in Tickets :
        pc = "done" /\ AssignFailed(issues[j].key) /\ j < later => Completed(later)

\* C2 amended: when the assign call fails for an issue, the failure is logged
\* at error level by the handler of the run and the run ends at that issue:
\* the failed call is the last call and no later issue is filtered,
\* classified, probed, transitioned or assigned.
C2_AssignFailureEndsRun ==
    \A j \in Tickets :
        AssignFailed(issues[j].key) =>
            /\ pc = "done"
            /\ i = j
            /\ Last(calls).op = "assign" /\ Last(calls).key = issues[j].key
            /\ ~ Last(calls).ok
            /\ Last(log) = RunError
            /\ \A later \in Tickets :
                   j < later =>
                       /\ Untouched(issues[later].key)
                       /\ issues[later].key \notin classified
                       /\ ~ Skipped(issues[later].key)
                       /\ ~ Logged("WARNING", "no_group", issues[later].key)

\* the assign call failed for an issue that is not the last of the batch
C2_Witness ==
    /\ pc = "done"
    /\ \E j \in Tickets : AssignFailed(issues[j].key) /\ j < Len(issues)

(* ------------------------- C3 ------------------------------------------ *)
TransitionJustFailed ==
    /\ calls # << >>
    /\ Last(calls).op = "transition"
    /\ ~ Last(calls).ok

\* C3: a failed transition call is logged and does not end the run; the very
\* next call is the assign call for the same issue with the chosen assignee,
\* and when that call returns the run is at the next issue.
C3_TransitionFailureNotFatal ==
    /\ [](TransitionJustFailed =>
            /\ pc = "assign"
            /\ Last(calls).key = issues[i].key
            /\ Last(log) = Entry("ERROR", "transition_error", issues[i].key, None))
    /\ [][TransitionJustFailed =>
            /\ Len(calls') = Len(calls) + 1
            /\ Last(calls') = Call("assign", issues[i].key, assignee, Last(calls').ok)
            /\ HasAssignee(issues[i]) => assignee = issues[i].assignee
            /\ ~ HasAssignee(issues[i]) =>
                   assignee = Candidates[ArgMin(counts, Len(Candidates))]
            /\ Last(calls').ok => pc' = "loop" /\ i' = i + 1]_vars

\* after a failed transition the assign call was issued and the run is at
\* the next issue
C3_Witness ==
    /\ pc = "loop"
    /\ \E n \in 1..(Len(calls) - 1) :
        /\ calls[n].op = "transition" /\ ~ calls[n].ok
        /\ calls[n + 1].op = "assign" /\ calls[n + 1].ok
        /\ calls[n + 1].key = calls[n].key
        /\ i <= Len(issues)

(* ------------------------- C4 ------------------------------------------ *)
\* group is what the Classifier must select for the issue: none when no
\* Team is eligible, else the earliest listed of the eligible Teams with the
\* greatest include count
IsSelection(group, issue) ==
    LET top == TopTeams(issue)
    IN IF EligibleTeams(issue) = {}
       THEN group = None
       ELSE \E n \in top :
               /\ group = KEYWORDS[n].group
               /\ \A m \in top : n <= m

\* C4: whenever the Classifier runs on an issue, it selects the eligible Team
\* with the greatest include count, the earliest listed one on a tie, and
\* none when no Team is eligible.
C4_ClassifierSelection ==
    [][ClassifierRuns => IsSelection(best_group', issues[i])]_vars

\* the Classifier ran on an issue with two eligible Teams tied at the
\* maximum and selected the earlier one
C4_Witness ==
    /\ pc = "probe"
    /\ issues[i].key \in classified
    /\ Cardinality(TopTeams(issues[i])) >= 2
    /\ \E n \in TopTeams(issues[i]) : best_group = KEYWORDS[n].group

(* ------------------------- C5 ------------------------------------------ *)
\* Teams with an include match and an exclude match in the issue
ExcludedTeams(issue) ==
    { n \in 1..Len(KEYWORDS) :
        /\ IncludeMatches(KEYWORDS[n], issue) >= 1
        /\ ExcludeMatches(KEYWORDS[n], issue) >= 1 }

\* C5: whenever the Classifier runs on an issue, the Team it selects is not
\* one with an include match and an exclude match.
C5_ExclusionDominance ==
    [][ClassifierRuns =>
         \A n \in ExcludedTeams(issues[i]) : best_group' # KEYWORDS[n].group]_vars

\* the Classifier ran on an issue in which an excluded Team has more include
\* matches than every other Team, and selected another Team
C5_Witness ==
    /\ pc = "probe"
    /\ issues[i].key \in classified
    /\ \E n \in ExcludedTeams(issues[i]) :
        /\ \A m \in 1..Len(KEYWORDS) :
              m # n => IncludeMatches(KEYWORDS[m], issues[i])
                         < IncludeMatches(KEYWORDS[n], issues[i])
        /\ best_group # KEYWORDS[n].group
        /\ best_group # None

(* ------------------------- C6 ------------------------------------------ *)
\* login is the first candidate of the selected Team with the smallest count
IsLeastLoaded(login) ==
    /\ Len(counts) = Len(Candidates)
    /\ \E m \in 1..Len(Candidates) :
        /\ login = Candidates[m]
        /\ \A n \in 1..Len(Candidates) : counts[m] <= counts[n]
        /\ \A n \in 1..(m - 1) : counts[n] > counts[m]

\* the current issue is a routed one: it came through the Classifier
Routing == pc \in {"transition", "assign"} /\ ~ HasAssignee(issues[i])

\* C6: the assignee chosen for a routed issue, and passed to its assign
\* call, is the first candidate of the selected Team whose count, as returned
\* by the probes of this issue, is minimal.
C6_LeastLoadedFirst ==
    /\ [](Routing => IsLeastLoaded(assignee))
    /\ [][Routing /\ pc = "assign" =>
            /\ Last(calls').op = "assign"
            /\ Last(calls').key = issues[i].key
            /\ IsLeastLoaded(Last(calls').arg)]_vars

\* three candidates, the first with the larger count and the other two tied
\* at the minimum: the assign call went to the second
C6_Witness ==
    /\ calls # << >>
    /\ Last(calls).op = "assign"
    /\ HasCandidates(best_group)
    /\ Len(Candidates) = 3
    /\ Len(counts) = 3
    /\ counts[1] > counts[2]
    /\ counts[2] = counts[3]
    /\ Last(calls).arg = Candidates[2]

(* ------------------------- C7 ------------------------------------------ *)
\* C7: an issue without assignee whose subject starts, letter case
\* disregarded, with an ignored prefix is never classified, gets no count,
\* transition or assign call, and is logged as skipped when the loop leaves it.
C7_IgnoredPrefixSkipped ==
    \A j \in Tickets :
        ~ HasAssignee(issues[j]) /\ StartsWithIgnoredPrefix(issues[j]) =>
            /\ issues[j].key \notin classified
            /\ Untouched(issues[j].key)
            /\ Completed(j) => Skipped(issues[j].key)

\* an issue whose subject matches an ignored prefix only when letter case is
\* disregarded, and passes the NB-Z* check, was skipped
C7_Witness ==
    \E j \in Tickets :
        /\ ~ HasAssignee(issues[j])
        /\ StartsWithIgnoredPrefix(issues[j])
        /\ \A n \in 1..Len(IGNORED_PREFIXES) :
              ~ StartsWith(issues[j].summary, IGNORED_PREFIXES[n])
        /\ Completed(j)
        /\ Logged("INFO", "skip_prefix", issues[j].key)

(* ------------------------- C8 ------------------------------------------ *)
\* C8: an issue without assignee whose description holds the marker and no
\* allow-pattern is skipped before the Classifier, with no count, transition
\* or assign call; one whose description holds the marker and an
\* allow-pattern is not skipped by the NB-Z* check.
C8_MarkerFilter ==
    \A j \in Tickets :
        ~ HasAssignee(issues[j]) =>
            /\ MarkerOnly(issues[j]) =>
                   /\ issues[j].key \notin classified
                   /\ Untouched(issues[j].key)
                   /\ Completed(j) => Logged("INFO", "skip_nb", issues[j].key)
            /\ MarkerAllowed(issues[j]) =>
                   /\ ~ Logged("INFO", "skip_nb", issues[j].key)
                   /\ Completed(j) /\ ~ StartsWithIgnoredPrefix(issues[j]) =>
                          issues[j].key \in classified

\* one issue with the marker alone was skipped and one with the marker and
\* an allow-pattern went on to the Classifier
C8_Witness ==
    \E j \in Tickets : \E h \in Tickets :
        /\ ~ HasAssignee(issues[j]) /\ MarkerOnly(issues[j])
        /\ Logged("INFO", "skip_nb", issues[j].key)
        /\ ~ HasAssignee(issues[h]) /\ MarkerAllowed(issues[h])
        /\ issues[h].key \in classified

(* ------------------------- C9 ------------------------------------------ *)
\* the issue has no assignee, passes both filters and no Team is eligible
NoTeamFor(issue) ==
    /\ ~ HasAssignee(issue)
    /\ ~ MarkerOnly(issue)
    /\ ~ StartsWithIgnoredPrefix(issue)
    /\ EligibleTeams(issue) = {}

\* C9: an issue without assignee that passes both filters and has no
\* eligible Team gets no count, transition or assign call; once classified, a
\* warning is logged for it and the loop is past it.
C9_UnroutableUntouched ==
    \A j \in Tickets :
        NoTeamFor(issues[j]) =>
            /\ Untouched(issues[j].key)
            /\ issues[j].key \in classified =>
                   /\ Logged("WARNING", "no_group", issues[j].key)
                   /\ Completed(j)
            /\ Completed(j) => issues[j].key \in classified

\* an unroutable issue was left untouched and a later issue got a call
C9_Witness ==
    \E j \in Tickets : \E later \in Tickets :
        /\ NoTeamFor(issues[j])
        /\ Logged("WARNING", "no_group", issues[j].key)
        /\ j < later
        /\ ~ Untouched(issues[later].key)

(* ------------------------- C10 ----------------------------------------- *)
FetchFailed == \E n \in 1..Len(calls) : calls[n].op = "search" /\ ~ calls[n].ok

\* C10: when the search fails the run is over: the failed search is the
\* only call, no issue is filtered, classified or assigned, and the only log
\* record is the error of the handler of the run.
C10_FetchFailureAbortsRun ==
    FetchFailed =>
        /\ pc = "done"
        /\ calls = << Call("search", None, None, FALSE) >>
        /\ issues = << >>
        /\ classified = {}
        /\ log = << RunError >>
        /\ success_log = << >>

\* the search failed although issues were pending
C10_Witness ==
    /\ FetchFailed
    /\ pc = "done"
    /\ pending # << >>

(* ------------------------- C11 ----------------------------------------- *)
\* positions in `success_log` of the records about the issue with this key
SuccessesOf(key) == { n \in 1..Len(success_log) : success_log[n].key = key }

\* positions in `calls` of the transition and assign calls for this key
MutatingCallsOf(key) == CallsOf("transition", key) \cup CallsOf("assign", key)

\* C11: an assign call is always immediately preceded by the transition call
\* of the same issue, which has returned or failed by then; an issue recorded
\* as routed or reassigned got exactly these two mutating calls.
C11_TransitionThenAssign ==
    \A j \in Tickets :
        /\ \A n \in CallsOf("assign", issues[j].key) :
               /\ n > 1
               /\ calls[n - 1].op = "transition"
               /\ calls[n - 1].key = issues[j].key
        /\ SuccessesOf(issues[j].key) # {} =>
               /\ Cardinality(MutatingCallsOf(issues[j].key)) = 2
               /\ Cardinality(CallsOf("transition", issues[j].key)) = 1
               /\ Cardinality(CallsOf("assign", issues[j].key)) = 1

\* a reassigned issue and a routed issue, each with its two calls
C11_Witness ==
    \E j \in Tickets : \E h \in Tickets :
        /\ HasAssignee(issues[j]) /\ SuccessesOf(issues[j].key) # {}
        /\ ~ HasAssignee(issues[h]) /\ SuccessesOf(issues[h].key) # {}

(* ------------------------- C12 ----------------------------------------- *)
\* positions in `calls` of the failed count calls
FailedProbes == { n \in 1..Len(calls) : calls[n].op = "count" /\ ~ calls[n].ok }

\* C12: a failed count call is the last call of the run: the candidate is not
\* probed again, its issue gets neither a transition nor an assign call nor a
\* success record, and the failure is logged by the handler of the run.
C12_ProbeFailureFatal ==
    \A n \in FailedProbes :
        /\ n = Len(calls)
        /\ pc = "done"
        /\ calls[n].key = issues[i].key
        /\ MutatingCallsOf(calls[n].key) = {}
        /\ SuccessesOf(calls[n].key) = {}
        /\ Last(log) = RunError
        /\ Cardinality({ m \in CallsOf("count", calls[n].key) :
                           calls[m].arg = calls[n].arg }) = 1

\* the probe of the second candidate failed after the first had returned
C12_Witness ==
    /\ pc = "done"
    /\ \E n \in FailedProbes :
        /\ n > 1
        /\ calls[n - 1].op = "count" /\ calls[n - 1].ok
        /\ calls[n - 1].key = calls[n].key

(* ------------------------- C13 ----------------------------------------- *)
\* positions in `log` of the records that close an issue without a call
ClosingEntriesOf(key) ==
    { n \in 1..Len(log) :
        /\ log[n].key = key
        /\ log[n].event \in {"skip_nb", "skip_prefix", "no_group"} }

\* number of terminal outcomes recorded for the issue with this key
Outcomes(key) == Cardinality(ClosingEntriesOf(key)) + Cardinality(SuccessesOf(key))

\* C13: every issue has at most one terminal outcome, exactly one once the
\* loop has left it, at most one transition call and one assign call; no
\* failed call is issued again, and the loop never goes back to an issue.
C13_OneOutcomeNoRetry ==
    /\ [](\A j \in Tickets :
            /\ Outcomes(issues[j].key) <= 1
            /\ Completed(j) => Outcomes(issues[j].key) = 1
            /\ Cardinality(CallsOf("transition", issues[j].key)) <= 1
            /\ Cardinality(CallsOf("assign", issues[j].key)) <= 1)
    /\ [](\A n \in 1..Len(calls) : \A m \in 1..Len(calls) :
            ~ calls[n].ok /\ n < m =>
                ~ (/\ calls[m].op = calls[n].op
                   /\ calls[m].key = calls[n].key
                   /\ calls[m].arg = calls[n].arg))
    /\ [][i' >= i]_vars

\* a batch of several issues was processed to its end, one of them with a
\* failed transition call
C13_Witness ==
    /\ pc = "done"
    /\ Len(issues) >= 2
    /\ Completed(Len(issues))
    /\ \E n \in 1..Len(calls) : calls[n].op = "transition" /\ ~ calls[n].ok

(* ------------------------- C14 ----------------------------------------- *)
\* positions in `calls` of the assign calls for this key that returned
AssignsDone(key) == { n \in CallsOf("assign", key) : calls[n].ok }

\* C14: in every state the success log holds a record for an issue exactly
\* when an assign call for it has returned, one record per such call and with
\* the login of that call; no other issue has a record.
C14_SuccessLogExact ==
    /\ \A j \in Tickets :
          /\ SuccessesOf(issues[j].key) # {} <=> AssignsDone(issues[j].key) # {}
          /\ Cardinality(SuccessesOf(issues[j].key))
               = Cardinality(AssignsDone(issues[j].key))
          /\ \A n \in SuccessesOf(issues[j].key) :
                \E m \in AssignsDone(issues[j].key) :
                    success_log[n].arg = calls[m].arg
    /\ \A n \in 1..Len(success_log) :
          \E j \in Tickets : issues[j].key = success_log[n].key

\* one issue was reassigned and recorded, another was skipped or failed and
\* has no record
C14_Witness ==
    /\ pc = "done"
    /\ \E j \in Tickets : \E h \in Tickets :
        /\ HasAssignee(issues[j]) /\ SuccessesOf(issues[j].key) # {}
        /\ SuccessesOf(issues[h].key) = {}
        /\ AssignFailed(issues[h].key) \/ Skipped(issues[h].key)

(* ------------------------- C15 ----------------------------------------- *)
\* the failure of call n was caught and logged: by the function itself for a
\* transition call, by the handler of the run, which ends the run, otherwise
FailureHandled(n) ==
    IF calls[n].op = "transition"
    THEN Logged("ERROR", "transition_error", calls[n].key)
    ELSE /\ pc = "done"
         /\ n = Len(calls)
         /\ Last(log) = RunError

\* C15: whatever calls fail, the run eventually returns (pc = "done", no
\* exception leaves distribute_issues), and every failed call has been
\* caught and logged.
C15_RunEnds ==
    /\ <>(pc = "done")
    /\ [](\A n \in 1..Len(calls) : ~ calls[n].ok => FailureHandled(n))

\* a run that returned after a failed transition call and a failed assign call
C15_Witness ==
    /\ pc = "done"
    /\ \E n \in 1..Len(calls) : calls[n].op = "transition" /\ ~ calls[n].ok
    /\ \E n \in 1..Len(calls) : calls[n].op = "assign" /\ ~ calls[n].ok

(* ------------------------- C16 ----------------------------------------- *)
\* the loop body has been entered for issue j
Begun(j) == i > j \/ (i = j /\ pc # "loop")

\* positions in `calls` of the assign calls that completed a route
RoutesDone(j) ==
    IF HasAssignee(issues[j]) THEN {} ELSE AssignsDone(issues[j].key)

\* C16: when an issue was routed and the processing of the next issue has
\* begun, a pacing delay (time.sleep) took place right after the assign call
\* of the routed issue.
C16_PacingAfterRoute ==
    \A j \in Tickets :
        j < Len(issues) /\ Begun(j + 1) =>
            \A n \in RoutesDone(j) :
                \E m \in 1..Len(calls) : m > n /\ calls[m].op = "sleep"

(* ------------------------- C17 ----------------------------------------- *)
\* the description, None read as the empty text
DescriptionText(issue) ==
    IF issue.description = None THEN "" ELSE issue.description

\* number of the phrases found in the case-folded concatenation of subject
\* and description
ConcatMatches(phrases, issue) ==
    Cardinality({ n \in 1..Len(phrases) :
        Contains(phrases[n], Lower(issue.summary \o DescriptionText(issue))) })

\* number of the phrases found in the case-folded subject or in the
\* case-folded description
FieldMatches(phrases, issue) ==
    Cardinality({ n \in 1..Len(phrases) :
        \/ Contains(phrases[n], Lower(issue.summary))
        \/ Contains(phrases[n], Lower(DescriptionText(issue))) })

\* C17 as stated: the counts the Classifier computes for an issue are the
\* numbers of phrases found in the case-folded concatenation of subject and
\* description.
C17_CountsOverConcatenation ==
    [][ClassifierRuns =>
         \A n \in 1..Len(KEYWORDS) :
            /\ matches'.include[n] = ConcatMatches(KEYWORDS[n].include, issues[i])
            /\ matches'.exclude[n] = ConcatMatches(KEYWORDS[n].exclude, issues[i])]_vars

\* C17 amended: the counts the Classifier computes for an issue are the
\* numbers of phrases found in the case-folded subject or in the case-folded
\* description, each field searched on its own and each phrase counted once.
C17_CountsPerField ==
    [][ClassifierRuns =>
         /\ matches'.key = issues[i].key
         /\ \A n \in 1..Len(KEYWORDS) :
              /\ matches'.include[n] = FieldMatches(KEYWORDS[n].include, issues[i])
              /\ matches'.exclude[n] = FieldMatches(KEYWORDS[n].exclude, issues[i])]_vars

\* the Classifier ran on an issue in which a phrase spans the end of the
\* subject and the start of the description, and did not count it
C17_Witness ==
    \E j \in Tickets :
        /\ issues[j].key = matches.key
        /\ \E n \in 1..Len(KEYWORDS) :
              matches.include[n] < ConcatMatches(KEYWORDS[n].include, issues[j])

(* ------------------------- C18 ----------------------------------------- *)
\* the Team the Classifier selects for an issue, by the rule of C4
Selected(issue) ==
    CHOOSE g \in { KEYWORDS[n].group : n \in 1..Len(KEYWORDS) } \cup { None } :
        IsSelection(g, issue)

\* the count calls of the issue with this key are consecutive calls, one for
\* each of the first candidates of the list, in the order of the list
ProbesFollow(key, candidates) ==
    LET probes == CallsOf("count", key)
    IN /\ Cardinality(probes) <= Len(candidates)
       /\ \E first \in probes :
            /\ probes = first..(first + Cardinality(probes) - 1)
            /\ \A n \in probes : calls[n].arg = candidates[n - first + 1]

\* C18: count calls are issued only for an issue without assignee that
\* passed both filters and got a Team; they probe the candidates of that Team
\* in list order, each at most once, and when the transition call of the
\* issue is issued every candidate has been probed exactly once.
C18_ProbesOnlyWhenRouting ==
    \A j \in Tickets :
        LET team == Selected(issues[j])
            probes == CallsOf("count", issues[j].key)
        IN probes # {} =>
            /\ ~ HasAssignee(issues[j])
            /\ ~ MarkerOnly(issues[j])
            /\ ~ StartsWithIgnoredPrefix(issues[j])
            /\ issues[j].key \in classified
            /\ team # None
            /\ HasCandidates(team)
            /\ ProbesFollow(issues[j].key, GROUPS[team])
            /\ ~ Skipped(issues[j].key)
            /\ ~ Logged("WARNING", "no_group", issues[j].key)
            /\ \A t \in CallsOf("transition", issues[j].key) :
                  /\ Cardinality(probes) = Len(GROUPS[team])
                  /\ \A n \in probes : n < t /\ calls[n].ok

\* a routed issue whose candidates were all probed before its transition
\* call, next to a reassigned, skipped or unroutable issue with no probe
C18_Witness ==
    \E j \in Tickets : \E h \in Tickets :
        /\ CallsOf("transition", issues[j].key) # {}
        /\ Cardinality(CallsOf("count", issues[j].key)) = 2
        /\ Completed(h)
        /\ CallsOf("count", issues[h].key) = {}

(* ------------------------- C19 ----------------------------------------- *)
\* the issue goes to the Classifier, which selects a Team that has no
\* candidate list or an empty one
NoCandidateFor(issue) ==
    LET team == Selected(issue)
    IN /\ ~ HasAssignee(issue)
       /\ ~ MarkerOnly(issue)
       /\ ~ StartsWithIgnoredPrefix(issue)
       /\ team # None
       /\ ~ HasCandidates(team)

\* C19: an issue whose selected Team has no candidate gets no call and no
\* success record; once it is classified the run has ended at that issue,
\* with the error logged by the handler of the run.
C19_NoCandidateNoCall ==
    \A j \in Tickets :
        NoCandidateFor(issues[j]) =>
            /\ Untouched(issues[j].key)
            /\ SuccessesOf(issues[j].key) = {}
            /\ issues[j].key \in classified =>
                   /\ pc = "done"
                   /\ i = j
                   /\ Last(log) = RunError
            /\ ~ Completed(j)

\* the run ended at an issue whose selected Team has no candidate, after an
\* earlier issue was processed
C19_Witness ==
    \E j \in Tickets :
        /\ NoCandidateFor(issues[j])
        /\ issues[j].key \in classified
        /\ pc = "done"
        /\ j > 1
====
